---- MODULE Spec2Model ----
(***************************************************************************)
(* golf-intel: the entrypoint handlers of src/index.ts as a state machine. *)
(* One invocation is followed at a time: a handler starts, issues its      *)
(* upstream requests, is resumed by their responses and ends by returning  *)
(* an { output } envelope or by throwing.                                  *)
(*                                                                         *)
(* Upstream JSON is modelled as tagged values (t = "undefined", "null",    *)
(* "number", "string", "array", "object"); JavaScript strings are          *)
(* sequences of one-character strings so that split / includes / replace / *)
(* toUpperCase are computed, not assumed.  A 2xx body is a JSON object (or *)
(* unparseable text); fields, when present, have the upstream's types.     *)
(***************************************************************************)
EXTENDS Integers, Sequences, FiniteSets, TLC

VARIABLES handler, pc, input, requests, responses, fetched, result, tracker, libCalls

vars == <<handler, pc, input, requests, responses, fetched, result, tracker, libCalls>>

(***************************************************************************)
(* Bounds of the model.                                                    *)
(***************************************************************************)
MaxRoster == 51
MaxEventRoster == 11
MaxCalendar == 6
MaxTime == 1

(***************************************************************************)
(* Program constants.                                                      *)
(***************************************************************************)
OverviewTop == 10
PgaDefaultLimit == 50
LpgaDefaultLimit == 30
HintCount == 10
ReportTop == 10
ReportSchedule == 5
TransactionsDefaultLimit == 50

(***************************************************************************)
(* JSON values and the JavaScript operators the handlers apply to them.    *)
(***************************************************************************)
Undefined == [t |-> "undefined"]
Null == [t |-> "null"]
Num(n) == [t |-> "number", n |-> n]
Str(s) == [t |-> "string", s |-> s]
Arr(a) == [t |-> "array", a |-> a]
Obj(o) == [t |-> "object", o |-> o]

Nullish(v) == v.t \in {"undefined", "null"}

\* !!v
Truthy(v) ==
    /\ ~Nullish(v)
    /\ ~(v.t = "number" /\ v.n = 0)
    /\ ~(v.t = "string" /\ v.s = <<>>)

\* v.f on a value that is not null or undefined
Get(v, f) == IF v.t = "object" /\ f \in DOMAIN v.o THEN v.o[f] ELSE Undefined

\* v?.f
Chain(v, f) == IF Nullish(v) THEN Undefined ELSE Get(v, f)

\* v?.[i]
ChainAt(v, i) ==
    IF v.t = "array" /\ (i + 1) \in DOMAIN v.a THEN v.a[i + 1] ELSE Undefined

\* a || b
OrElse(a, b) == IF Truthy(a) THEN a ELSE b

Min(a, b) == IF a <= b THEN a ELSE b
Max(a, b) == IF a >= b THEN a ELSE b

\* Array.prototype.slice(start, end) on the elements of an array, integer arguments
Slice(a, start, end) ==
    LET len == Len(a)
        from == IF start < 0 THEN Max(len + start, 0) ELSE Min(start, len)
        to == IF end < 0 THEN Max(len + end, 0) ELSE Min(end, len)
    IN  IF to > from THEN SubSeq(a, from + 1, to) ELSE <<>>

\* String.prototype.indexOf, 1-based, 0 when absent
IndexOf(s, sub) ==
    LET hits == {i \in 1..(Len(s) - Len(sub) + 1) : SubSeq(s, i, i + Len(sub) - 1) = sub}
    IN  IF hits = {} THEN 0 ELSE CHOOSE i \in hits : \A j \in hits : i <= j

\* String.prototype.includes
Includes(s, sub) == IndexOf(s, sub) # 0

\* String.prototype.split with a non-empty separator
RECURSIVE Split(_, _)
Split(s, sep) ==
    LET i == IndexOf(s, sep)
    IN  IF i = 0 THEN <<s>>
        ELSE <<SubSeq(s, 1, i - 1)>> \o Split(SubSeq(s, i + Len(sep), Len(s)), sep)

\* String.prototype.replace with a string pattern: the first occurrence only
Replace(s, pat, rep) ==
    LET i == IndexOf(s, pat)
    IN  IF i = 0 THEN s
        ELSE SubSeq(s, 1, i - 1) \o rep \o SubSeq(s, i + Len(pat), Len(s))

LowerCase == <<"a", "b", "c", "d", "e", "f", "g", "h", "i", "j", "k", "l", "m",
               "n", "o", "p", "q", "r", "s", "t", "u", "v", "w", "x", "y", "z">>
UpperCase == <<"A", "B", "C", "D", "E", "F", "G", "H", "I", "J", "K", "L", "M",
               "N", "O", "P", "Q", "R", "S", "T", "U", "V", "W", "X", "Y", "Z">>

UpperChar(c) ==
    IF \E i \in 1..Len(LowerCase) : LowerCase[i] = c
    THEN UpperCase[CHOOSE i \in 1..Len(LowerCase) : LowerCase[i] = c]
    ELSE c

\* String.prototype.toUpperCase
ToUpperCase(s) == IF s = <<>> THEN <<>> ELSE [i \in 1..Len(s) |-> UpperChar(s[i])]

DigitChars == <<"0", "1", "2", "3", "4", "5", "6", "7", "8", "9">>

\* Number to decimal text, n >= 0
RECURSIVE Digits(_)
Digits(n) ==
    IF n < 10 THEN <<DigitChars[n + 1]>>
    ELSE Digits(n \div 10) \o <<DigitChars[(n % 10) + 1]>>

\* `${v}` in a template literal
TemplateString(v) ==
    CASE v.t = "string" -> v.s
      [] v.t = "number" -> Digits(v.n)
      [] v.t = "null" -> <<"n", "u", "l", "l">>
      [] OTHER -> <<"u", "n", "d", "e", "f", "i", "n", "e", "d">>

NA == Str(<<"N", "/", "A">>)
Unknown == Str(<<"U", "n", "k", "n", "o", "w", "n">>)
Finished == Str(<<"F">>)

(***************************************************************************)
(* fetchJSON (index.ts 21-27) and the upstream's possible answers.         *)
(***************************************************************************)
Pending == [kind |-> "pending"]
Fulfilled(v) == [kind |-> "fulfilled", value |-> v]
Rejected(e) == [kind |-> "rejected", error |-> e]

NoResult == [kind |-> "none"]
Returned(out) == [kind |-> "returned", output |-> out]
Thrown(e) == [kind |-> "thrown", error |-> e]

Unparseable == [t |-> "unparseable"]

ApiErrorPrefix == <<"A", "P", "I", " ", "e", "r", "r", "o", "r", ":", " ">>

\* new Error(`API error: ${response.status}`)
ApiError(status) == [name |-> "Error", message |-> ApiErrorPrefix \o Digits(status)]

\* resp is what fetch(url) settles to; the result is what fetchJSON(url) settles to
fetchJSON(resp) ==
    IF resp.settled = "rejected"
    THEN Rejected([name |-> "TypeError", message |-> <<"f", "e", "t", "c", "h">>])
    ELSE IF ~resp.ok
    THEN Rejected(ApiError(resp.status))
    ELSE IF resp.body.t = "unparseable"
    THEN Rejected([name |-> "SyntaxError", message |-> <<"j", "s", "o", "n">>])
    ELSE Fulfilled(resp.body)

ErrorStatuses == {404, 500}

Responses(bodies) ==
    {[settled |-> "rejected"]}
    \cup {[settled |-> "fulfilled", ok |-> FALSE, status |-> st] : st \in ErrorStatuses}
    \cup {[settled |-> "fulfilled", ok |-> TRUE, status |-> 200, body |-> b] :
            b \in bodies \cup {Unparseable}}

\* `${ESPN_BASE}/${tour}/events`
EventsUrl(tour) == [tour |-> tour, family |-> "events"]
\* `${ESPN_BASE}/pga/scoreboard`
ScoreboardUrl == [tour |-> "pga", family |-> "scoreboard"]
\* `${ESPN_BASE}/pga/scoreboard?event=${event.id}`
EventScoreboardUrl(event) ==
    [tour |-> "pga", family |-> "scoreboard", event |-> TemplateString(Get(event, "id"))]

(***************************************************************************)
(* Upstream payloads the responses are drawn from.                         *)
(***************************************************************************)
Times == 0..MaxTime

\* an injective renumbering, so that upstream order is not sorted order
PlayerNumber(k) == 100 + ((k * 37) % 101)

ShortNames ==
    << Str(<<"U", "S", "A", ".", "S", "m", "i", "t", "h">>),
       Undefined,
       Str(<<"S", "m", "i", "t", "h">>),
       Str(<<>>),
       Str(<<".", "S", "m", "i", "t", "h">>),
       Null >>

Logos ==
    << Str(<<"x", "/", "c", "o", "u", "n", "t", "r", "i", "e", "s", "/", "5", "0", "0", "/", "e", "n", "g", ".", "p", "n", "g">>),
       Undefined,
       Str(<<"x", "/", "c", "o", "u", "n", "t", "r", "i", "e", "s", "/", "5", "0", "0", "/", "E", "N", "G", ".", "p", "n", "g">>),
       Str(<<"x", "/", "p", "l", "a", "y", "e", "r", "s", "/", "7", ".", "p", "n", "g">>),
       Str(<<"x", "/", "c", "o", "u", "n", "t", "r", "i", "e", "s", "/", "1", "0", "0", "/", "e", "n", "g", ".", "p", "n", "g">>),
       Str(<<>>) >>

Cycle(seq, k) == seq[((k - 1) % Len(seq)) + 1]

\* a competitor of an /events payload
EventCompetitor(k) ==
    Obj([displayName |-> Str(<<"P">> \o Digits(PlayerNumber(k))),
         score |-> Str(<<"-">> \o Digits(k % 7)),
         shortName |-> Cycle(ShortNames, k),
         logo |-> Cycle(Logos, k)])

EventRoster(n) == IF n = 0 THEN <<>> ELSE [k \in 1..n |-> EventCompetitor(k)]

EventCompetitorLists ==
    {Undefined} \cup {Arr(EventRoster(n)) : n \in {0, 3, MaxEventRoster}}

FullStatus ==
    Obj([type |-> Obj([description |-> Str(<<"F", "i", "n", "a", "l">>)]),
         displayPeriod |-> Num(4)])

\* an element of events[]: sparse events lack id, date and fullStatus
EventObj(comps, sparse) ==
    Obj([id |-> IF sparse THEN Undefined ELSE Str(<<"4", "0", "1">>),
         name |-> Str(<<"T", "h", "e", " ", "O", "p", "e", "n">>),
         date |-> IF sparse THEN Undefined ELSE Str(<<"2", "0", "2", "6">>),
         fullStatus |-> IF sparse THEN Undefined ELSE FullStatus,
         competitors |-> comps])

Events == {EventObj(c, sp) : c \in EventCompetitorLists, sp \in BOOLEAN}

EventsBodies ==
    {Obj([events |-> Undefined]), Obj([events |-> Arr(<<>>)]), Obj([events |-> Arr(<<Null>>)])}
    \cup {Obj([events |-> Arr(<<e>>)]) : e \in Events}
    \cup {Obj([events |-> Arr(<<e, EventObj(Undefined, TRUE)>>)]) : e \in {EventObj(Arr(EventRoster(3)), FALSE)}}

Athletes(k) ==
    << Obj([displayName |-> Str(<<"A">> \o Digits(PlayerNumber(k))),
            flag |-> Obj([alt |-> Str(<<"U", "S", "A">>)])]),
       Undefined,
       Obj([displayName |-> Undefined, flag |-> Undefined]) >>

Statuses ==
    << Obj([thru |-> Num(18)]),
       Undefined,
       Obj([thru |-> Num(0)]),
       Obj([thru |-> Undefined]),
       Obj([thru |-> Str(<<"F">>)]) >>

Hole(h) ==
    Obj([period |-> Num(h),
         value |-> Num(3 + h),
         scoreType |-> IF h = 1 THEN Obj([displayValue |-> Str(<<"E">>)]) ELSE Undefined])

Round(r) ==
    Obj([displayValue |-> Str(Digits(67 + r)),
         linescores |-> IF r % 2 = 0 THEN Undefined ELSE Arr(<<Hole(1), Hole(2)>>)])

Rounds(n) == [r \in 1..n |-> Round(r)]

LineScores == << Arr(Rounds(2)), Undefined, Arr(<<>>), Arr(Rounds(4)) >>

\* a competitor of a /scoreboard payload
ScoreboardCompetitor(k) ==
    Obj([id |-> Str(Digits(PlayerNumber(k))),
         displayName |-> Str(<<"P">> \o Digits(PlayerNumber(k))),
         athlete |-> Cycle(Athletes(k), k),
         score |-> Str(<<"-">> \o Digits(k % 7)),
         status |-> Cycle(Statuses, k),
         linescores |-> Cycle(LineScores, k)])

ScoreboardRoster(n) == IF n = 0 THEN <<>> ELSE [k \in 1..n |-> ScoreboardCompetitor(k)]

ScoreboardCompetitorLists ==
    {Undefined} \cup {Arr(ScoreboardRoster(n)) : n \in {0, 3, 20, MaxRoster}}

CalendarEntry(k) ==
    Obj([id |-> Str(Digits(400 + k)),
         label |-> Str(<<"E">> \o Digits(k)),
         startDate |-> Str(<<"2", "0", "2", "6">>),
         endDate |-> Undefined])

Calendar(n) == IF n = 0 THEN <<>> ELSE [k \in 1..n |-> CalendarEntry(k)]

CalendarLists == {Undefined, Arr(Calendar(2)), Arr(Calendar(MaxCalendar))}

ScoreboardBody(comps, cal) ==
    Obj([events |-> Arr(<<Obj([competitions |-> Arr(<<Obj([competitors |-> comps])>>)])>>),
         leagues |-> Arr(<<Obj([calendar |-> cal])>>)])

ScoreboardBodies ==
    {Obj([events |-> Undefined, leagues |-> Undefined])}
    \cup {ScoreboardBody(c, cal) : c \in ScoreboardCompetitorLists, cal \in CalendarLists}

\* /pga/scoreboard without an event filter, as full-report reads it
ScheduleBodies ==
    {Obj([events |-> Undefined, leagues |-> Undefined])}
    \cup {ScoreboardBody(Arr(ScoreboardRoster(3)), cal) : cal \in CalendarLists}

\* the raw `limit` of a request: absent, or a number
LimitInputs == {Undefined, Num(-1), Num(0), Num(5), Num(100)}

\* the raw `playerId` of a request
PlayerIdInputs ==
    {Str(Digits(PlayerNumber(k))) : k \in {1, 2, 3, 4}} \cup {Str(<<"9", "9", "9">>), Str(<<>>)}

\* the raw `windowMs` of a request
WindowInputs == {Undefined, Num(1000)}

\* what the analytics library's calls settle to
Summaries ==
    {[outgoingTotal |-> 0, incomingTotal |-> 0, netTotal |-> 0, transactionCount |-> 0],
     [outgoingTotal |-> 7, incomingTotal |-> 3, netTotal |-> -4, transactionCount |-> 2]}

Transaction(k) == [id |-> k, amount |-> 1000 * k]

TransactionLists == {<<>>, <<Transaction(1), Transaction(2)>>}

CsvTexts == {<<>>, <<"i", "d", ",", "a", "m", "o", "u", "n", "t">>}

LibraryError == [name |-> "Error", message |-> <<"t", "r", "a", "c", "k", "e", "r">>]

LibraryOutcomes(values) == {Rejected(LibraryError)} \cup {Fulfilled(v) : v \in values}

\* data.events?.[0]
CurrentEvent(data) == ChainAt(Get(data, "events"), 0)

\* z.number().optional().default(d)
ParseLimit(raw, d) == IF raw.t = "undefined" THEN d ELSE raw.n

(***************************************************************************)
(* overview (index.ts 33-61)                                               *)
(***************************************************************************)
\* c.shortName?.split('.')[0]
ShortNameCountry(c) ==
    LET sn == Get(c, "shortName")
    IN  IF Nullish(sn) THEN Undefined ELSE Str(Split(sn.s, <<".">>)[1])

\* position: i instead of i + 1
OverviewEntry_ZeroBased(c, i) ==
    [position |-> i,
     name |-> Get(c, "displayName"),
     score |-> Get(c, "score"),
     country |-> OrElse(ShortNameCountry(c), NA)]

OverviewEntry(c, i) ==
    [position |-> i + 1,
     name |-> Get(c, "displayName"),
     score |-> Get(c, "score"),
     country |-> OrElse(ShortNameCountry(c), NA)]

\* event.competitors?.slice(0, n) || []
TopCompetitors(event, n) ==
    LET comps == Get(event, "competitors")
    IN  IF Nullish(comps) THEN <<>> ELSE Slice(comps.a, 0, n)

OverviewLeaderboard(competitors) ==
    IF competitors = <<>> THEN <<>>
    ELSE [i \in 1..Len(competitors) |-> OverviewEntry(competitors[i], i - 1)]

\* the handler from the resolution of fetchJSON on
OverviewHandler(data, now) ==
    LET event == CurrentEvent(data)
    IN  IF ~Truthy(event)
        THEN Returned([message |-> "No active tournament", fetchedAt |-> now])
        ELSE Returned(
               [tournament |-> Get(event, "name"),
                status |-> OrElse(Chain(Chain(Chain(event, "fullStatus"), "type"), "description"), Unknown),
                round |-> OrElse(Chain(Chain(event, "fullStatus"), "displayPeriod"), NA),
                leaderboard |-> OverviewLeaderboard(TopCompetitors(event, OverviewTop)),
                fetchedAt |-> now,
                dataSource |-> "ESPN Golf API (live)"])

(***************************************************************************)
(* pga-leaderboard (index.ts 64-104)                                       *)
(***************************************************************************)
\* scoreboard.events?.[0]?.competitions?.[0]?.competitors || []
ScoreboardCompetitors(scoreboard) ==
    LET cs == Chain(ChainAt(Chain(ChainAt(Get(scoreboard, "events"), 0), "competitions"), 0),
                    "competitors")
    IN  IF Truthy(cs) THEN cs.a ELSE <<>>

\* c.status?.thru || 'F'
Thru(c) == OrElse(Chain(Get(c, "status"), "thru"), Finished)

PgaLeaderboardEntry(c, i) ==
    [position |-> i + 1,
     playerId |-> Get(c, "id"),
     name |-> OrElse(Chain(Get(c, "athlete"), "displayName"), Get(c, "displayName")),
     score |-> Get(c, "score"),
     country |-> OrElse(Chain(Chain(Get(c, "athlete"), "flag"), "alt"), Unknown),
     thru |-> Thru(c)]

\* the map without the slice
PgaLeaderboard_NoSlice(competitors, limit) ==
    IF competitors = <<>> THEN <<>>
    ELSE [i \in 1..Len(competitors) |-> PgaLeaderboardEntry(competitors[i], i - 1)]

\* competitors.slice(0, ctx.input.limit).map(...)
PgaLeaderboard(competitors, limit) ==
    LET shown == Slice(competitors, 0, limit)
    IN  IF shown = <<>> THEN <<>>
        ELSE [i \in 1..Len(shown) |-> PgaLeaderboardEntry(shown[i], i - 1)]

\* what the handler does when fetchJSON(events) has settled
PgaLeaderboardEventStep(eventsData) ==
    IF eventsData.kind = "rejected"
    THEN [do |-> "throw", error |-> eventsData.error]
    ELSE IF ~Truthy(CurrentEvent(eventsData.value))
    THEN [do |-> "return", output |-> [error |-> "No active PGA tournament"]]
    ELSE [do |-> "fetch", url |-> EventScoreboardUrl(CurrentEvent(eventsData.value))]

PgaLeaderboardOutput(event, scoreboard, limit, now) ==
    LET competitors == ScoreboardCompetitors(scoreboard)
    IN  Returned(
          [tournament |-> [id |-> Get(event, "id"),
                           name |-> Get(event, "name"),
                           status |-> Chain(Chain(Chain(event, "fullStatus"), "type"), "description"),
                           round |-> Chain(Chain(event, "fullStatus"), "displayPeriod"),
                           date |-> Get(event, "date")],
           leaderboard |-> PgaLeaderboard(competitors, limit),
           totalPlayers |-> Len(competitors),
           fetchedAt |-> now])

(***************************************************************************)
(* player-scorecard (index.ts 107-152)                                     *)
(***************************************************************************)
\* competitors.find(c => c.id === playerId)
Find(competitors, playerId) ==
    LET hits == {i \in 1..Len(competitors) : Get(competitors[i], "id") = playerId}
    IN  IF hits = {} THEN Undefined
        ELSE competitors[CHOOSE i \in hits : \A j \in hits : i <= j]

\* the hint list without its slice(0, 10)
AvailablePlayers_All(competitors) ==
    IF competitors = <<>> THEN <<>>
    ELSE [i \in 1..Len(competitors) |->
            [id |-> Get(competitors[i], "id"),
             name |-> Chain(Get(competitors[i], "athlete"), "displayName")]]

\* competitors.slice(0, 10).map(c => ({ id, name }))
AvailablePlayers(competitors) ==
    LET shown == Slice(competitors, 0, HintCount)
    IN  IF shown = <<>> THEN <<>>
        ELSE [i \in 1..Len(shown) |->
                [id |-> Get(shown[i], "id"),
                 name |-> Chain(Get(shown[i], "athlete"), "displayName")]]

HoleEntry(h) ==
    [hole |-> Get(h, "period"),
     strokes |-> Get(h, "value"),
     toPar |-> Chain(Get(h, "scoreType"), "displayValue")]

\* round.linescores?.map(...) || []
Holes(round) ==
    LET ls == Get(round, "linescores")
    IN  IF Nullish(ls) \/ ls.a = <<>> THEN <<>>
        ELSE [i \in 1..Len(ls.a) |-> HoleEntry(ls.a[i])]

RoundEntry(round, i) ==
    [round |-> i + 1, score |-> Get(round, "displayValue"), holes |-> Holes(round)]

\* (player.linescores || []).map(...)
ScorecardRounds(player) ==
    LET ls == Get(player, "linescores")
        rounds == IF Truthy(ls) THEN ls.a ELSE <<>>
    IN  IF rounds = <<>> THEN <<>>
        ELSE [i \in 1..Len(rounds) |-> RoundEntry(rounds[i], i - 1)]

\* the scoreboard is fetched whether or not there is a current event
PlayerScorecardEventStep_AlwaysFetch(eventsData) ==
    IF eventsData.kind = "rejected"
    THEN [do |-> "throw", error |-> eventsData.error]
    ELSE [do |-> "fetch", url |-> EventScoreboardUrl(CurrentEvent(eventsData.value))]

PlayerScorecardEventStep(eventsData) ==
    IF eventsData.kind = "rejected"
    THEN [do |-> "throw", error |-> eventsData.error]
    ELSE IF ~Truthy(CurrentEvent(eventsData.value))
    THEN [do |-> "return", output |-> [error |-> "No active tournament"]]
    ELSE [do |-> "fetch", url |-> EventScoreboardUrl(CurrentEvent(eventsData.value))]

PlayerScorecardOutput(event, scoreboard, playerId, now) ==
    LET competitors == ScoreboardCompetitors(scoreboard)
        player == Find(competitors, playerId)
    IN  IF ~Truthy(player)
        THEN Returned([error |-> "Player not found in current tournament",
                       availablePlayers |-> AvailablePlayers(competitors)])
        ELSE Returned(
               [tournament |-> Get(event, "name"),
                player |-> [id |-> Get(player, "id"),
                            name |-> OrElse(Chain(Get(player, "athlete"), "displayName"),
                                            Get(player, "displayName")),
                            country |-> OrElse(Chain(Chain(Get(player, "athlete"), "flag"), "alt"),
                                               Unknown),
                            totalScore |-> Get(player, "score")],
                rounds |-> ScorecardRounds(player),
                fetchedAt |-> now])

(***************************************************************************)
(* lpga-leaderboard (index.ts 184-218)                                     *)
(***************************************************************************)
CountriesDir == <<"/", "c", "o", "u", "n", "t", "r", "i", "e", "s", "/">>
Countries500Dir == CountriesDir \o <<"5", "0", "0", "/">>
PngSuffix == <<".", "p", "n", "g">>

\* c.logo?.includes('/countries/')
\*   ? c.logo.split('/countries/500/')[1]?.replace('.png', '').toUpperCase() : 'N/A'
LogoCountry(c) ==
    LET logo == Get(c, "logo")
    IN  IF ~Nullish(logo) /\ Includes(logo.s, CountriesDir)
        THEN LET parts == Split(logo.s, Countries500Dir)
             IN  IF Len(parts) < 2 THEN Undefined
                 ELSE Str(ToUpperCase(Replace(parts[2], PngSuffix, <<>>)))
        ELSE NA

LpgaEntry(c, i) ==
    [position |-> i + 1,
     name |-> Get(c, "displayName"),
     score |-> Get(c, "score"),
     country |-> LogoCountry(c)]

LpgaLeaderboard(competitors) ==
    IF competitors = <<>> THEN <<>>
    ELSE [i \in 1..Len(competitors) |-> LpgaEntry(competitors[i], i - 1)]

\* the handler without its `if (!event)` return: event.competitors is read of undefined
LpgaLeaderboardHandler_NoGuard(data, limit, now) ==
    LET event == CurrentEvent(data)
    IN  IF ~Truthy(event)
        THEN Thrown([name |-> "TypeError", message |-> <<"u", "n", "d", "e", "f">>])
        ELSE Returned([tournament |-> [name |-> Get(event, "name")],
                       leaderboard |-> LpgaLeaderboard(TopCompetitors(event, limit)),
                       fetchedAt |-> now])

LpgaLeaderboardHandler(data, limit, now) ==
    LET event == CurrentEvent(data)
    IN  IF ~Truthy(event)
        THEN Returned([error |-> "No active LPGA tournament"])
        ELSE Returned(
               [tournament |-> [id |-> Get(event, "id"),
                                name |-> Get(event, "name"),
                                status |-> Chain(Chain(Chain(event, "fullStatus"), "type"), "description"),
                                round |-> Chain(Chain(event, "fullStatus"), "displayPeriod"),
                                date |-> Get(event, "date")],
                leaderboard |-> LpgaLeaderboard(TopCompetitors(event, limit)),
                fetchedAt |-> now])

(***************************************************************************)
(* full-report (index.ts 221-267)                                          *)
(***************************************************************************)
\* Promise.all over the settled-or-pending results of the three fetchJSON calls
PromiseAll(results) ==
    IF \E i \in DOMAIN results : results[i].kind = "rejected" THEN "rejected"
    ELSE IF \A i \in DOMAIN results : results[i].kind = "fulfilled" THEN "fulfilled"
    ELSE "pending"

ReportPlayer(c, i) ==
    [position |-> i + 1, name |-> Get(c, "displayName"), score |-> Get(c, "score")]

\* event.competitors?.slice(0, 10).map(...) || []
ReportTopPlayers(event) ==
    LET shown == TopCompetitors(event, ReportTop)
    IN  IF shown = <<>> THEN <<>>
        ELSE [i \in 1..Len(shown) |-> ReportPlayer(shown[i], i - 1)]

\* event ? { tournament, status, round, topPlayers } : null
ReportSection(event) ==
    IF Truthy(event)
    THEN [tournament |-> Get(event, "name"),
          status |-> Chain(Chain(Chain(event, "fullStatus"), "type"), "description"),
          round |-> Chain(Chain(event, "fullStatus"), "displayPeriod"),
          topPlayers |-> ReportTopPlayers(event)]
    ELSE Null

\* pgaScoreboard.leagues?.[0]?.calendar?.slice(0, 5) || []
ReportSchedule5(pgaScoreboard) ==
    LET cal == Chain(ChainAt(Get(pgaScoreboard, "leagues"), 0), "calendar")
        shown == IF Nullish(cal) THEN <<>> ELSE Slice(cal.a, 0, ReportSchedule)
    IN  IF shown = <<>> THEN <<>>
        ELSE [i \in 1..Len(shown) |->
                [name |-> Get(shown[i], "label"), startDate |-> Get(shown[i], "startDate")]]

\* both sections gated on the pga event
FullReportOutput_Coupled(pgaEvents, lpgaEvents, pgaScoreboard, now) ==
    Returned([pga |-> ReportSection(CurrentEvent(pgaEvents)),
              lpga |-> IF Truthy(CurrentEvent(pgaEvents))
                       THEN ReportSection(CurrentEvent(lpgaEvents)) ELSE Null,
              upcomingPGA |-> ReportSchedule5(pgaScoreboard),
              generatedAt |-> now])

FullReportOutput(pgaEvents, lpgaEvents, pgaScoreboard, now) ==
    Returned([pga |-> ReportSection(CurrentEvent(pgaEvents)),
              lpga |-> ReportSection(CurrentEvent(lpgaEvents)),
              upcomingPGA |-> ReportSchedule5(pgaScoreboard),
              generatedAt |-> now])

\* what a failed call would be replaced by under a partial-result fallback
ValueOrEmpty(r) ==
    IF r.kind = "fulfilled" THEN r.value ELSE Obj([events |-> Undefined, leagues |-> Undefined])

\* Promise.allSettled with a partial-result fallback instead of Promise.all
FullReportResume_Fallback(all, settled, now) ==
    IF \A i \in DOMAIN all : all[i].kind # "pending"
    THEN [result |-> FullReportOutput(ValueOrEmpty(all[1]), ValueOrEmpty(all[2]),
                                      ValueOrEmpty(all[3]), now),
          pc |-> "done"]
    ELSE [result |-> NoResult, pc |-> "await_all"]

\* await Promise.all([...]): with `all` the three results after one more has settled,
\* the handler throws that rejection, composes the report, or keeps waiting
FullReportResume(all, settled, now) ==
    IF PromiseAll(all) = "rejected"
    THEN [result |-> Thrown(settled.error), pc |-> "done"]
    ELSE IF PromiseAll(all) = "fulfilled"
    THEN [result |-> FullReportOutput(all[1].value, all[2].value, all[3].value, now),
          pc |-> "done"]
    ELSE [result |-> NoResult, pc |-> "await_all"]

(***************************************************************************)
(* analytics, analytics-transactions, analytics-csv (index.ts 270-325)     *)
(***************************************************************************)
\* BigInt.prototype.toString
BigIntToString(n) == IF n < 0 THEN <<"-">> \o Digits(0 - n) ELSE Digits(n)

\* const tracker = agent.analytics?.paymentTracker; if (!tracker) return ...
AnalyticsGuard(trk) ==
    IF ~trk
    THEN [do |-> "return", output |-> [error |-> "Analytics not available", payments |-> <<>>]]
    ELSE [do |-> "call"]

AnalyticsOutput(summary) ==
    Returned([transactionCount |-> summary.transactionCount,
              outgoingTotal |-> BigIntToString(summary.outgoingTotal),
              incomingTotal |-> BigIntToString(summary.incomingTotal),
              netTotal |-> BigIntToString(summary.netTotal)])

AnalyticsTransactionsGuard(trk) ==
    IF ~trk THEN [do |-> "return", output |-> [transactions |-> <<>>]] ELSE [do |-> "call"]

AnalyticsTransactionsOutput(txs, limit) == Returned([transactions |-> Slice(txs, 0, limit)])

\* the handler without its `if (!tracker)` return
AnalyticsCsvGuard_Missing(trk) == [do |-> "call"]

AnalyticsCsvGuard(trk) ==
    IF ~trk THEN [do |-> "return", output |-> [csv |-> <<>>]] ELSE [do |-> "call"]

AnalyticsCsvOutput(csv) == Returned([csv |-> csv])

(***************************************************************************)
(* The state machine.                                                      *)
(***************************************************************************)
NoInput == [empty |-> TRUE]

Init ==
    /\ handler = "none"
    /\ pc = "idle"
    /\ input = NoInput
    /\ requests = <<>>
    /\ responses = <<>>
    /\ fetched = <<>>
    /\ result = NoResult
    /\ tracker \in BOOLEAN
    /\ libCalls = 0

\* the service takes the next invocation when none is being followed
Ready == pc \in {"idle", "done"}

\* a new invocation: its input is parsed and its first requests are issued
Begin(key, in, urls, at) ==
    /\ handler' = key
    /\ input' = in
    /\ requests' = urls
    /\ responses' = [i \in 1..Len(urls) |-> Pending]
    /\ fetched' = [i \in 1..Len(urls) |-> Pending]
    /\ result' = NoResult
    /\ libCalls' = 0
    /\ pc' = at
    /\ UNCHANGED tracker

\* the invocation ends with result r once its last request was answered by resp
Finish(r, resp) ==
    /\ responses' = [responses EXCEPT ![Len(responses)] = resp]
    /\ fetched' = [fetched EXCEPT ![Len(fetched)] = fetchJSON(resp)]
    /\ result' = r
    /\ pc' = "done"
    /\ UNCHANGED <<handler, input, requests, tracker, libCalls>>

OverviewStart ==
    /\ Ready
    /\ Begin("overview", NoInput, <<EventsUrl("pga")>>, "await_events")

OverviewResume ==
    /\ handler = "overview"
    /\ pc = "await_events"
    /\ \E resp \in Responses(EventsBodies), now \in Times :
         LET data == fetchJSON(resp)
         IN  Finish(IF data.kind = "rejected" THEN Thrown(data.error)
                    ELSE OverviewHandler(data.value, now), resp)

\* the first await of a two-call handler has settled: throw, return or fetch again
AfterEvents(step, resp) ==
    IF step.do = "throw" THEN Finish(Thrown(step.error), resp)
    ELSE IF step.do = "return" THEN Finish(Returned(step.output), resp)
    ELSE /\ requests' = Append(requests, step.url)
         /\ responses' = <<resp, Pending>>
         /\ fetched' = <<fetchJSON(resp), Pending>>
         /\ pc' = "await_scoreboard"
         /\ UNCHANGED <<handler, input, result, tracker, libCalls>>

PgaLeaderboardStart ==
    /\ Ready
    /\ \E raw \in LimitInputs :
         Begin("pga-leaderboard", [raw |-> raw, limit |-> ParseLimit(raw, PgaDefaultLimit)],
               <<EventsUrl("pga")>>, "await_events")

PgaLeaderboardAfterEvents ==
    /\ handler = "pga-leaderboard"
    /\ pc = "await_events"
    /\ \E resp \in Responses(EventsBodies) :
         AfterEvents(PgaLeaderboardEventStep(fetchJSON(resp)), resp)

PgaLeaderboardAfterScoreboard ==
    /\ handler = "pga-leaderboard"
    /\ pc = "await_scoreboard"
    /\ \E resp \in Responses(ScoreboardBodies), now \in Times :
         LET scoreboard == fetchJSON(resp)
         IN  Finish(IF scoreboard.kind = "rejected" THEN Thrown(scoreboard.error)
                    ELSE PgaLeaderboardOutput(CurrentEvent(fetched[1].value), scoreboard.value,
                                              input.limit, now),
                    resp)

PlayerScorecardStart ==
    /\ Ready
    /\ \E id \in PlayerIdInputs :
         Begin("player-scorecard", [playerId |-> id], <<EventsUrl("pga")>>, "await_events")

PlayerScorecardAfterEvents ==
    /\ handler = "player-scorecard"
    /\ pc = "await_events"
    /\ \E resp \in Responses(EventsBodies) :
         AfterEvents(PlayerScorecardEventStep(fetchJSON(resp)), resp)

PlayerScorecardAfterScoreboard ==
    /\ handler = "player-scorecard"
    /\ pc = "await_scoreboard"
    /\ \E resp \in Responses(ScoreboardBodies), now \in Times :
         LET scoreboard == fetchJSON(resp)
         IN  Finish(IF scoreboard.kind = "rejected" THEN Thrown(scoreboard.error)
                    ELSE PlayerScorecardOutput(CurrentEvent(fetched[1].value), scoreboard.value,
                                               input.playerId, now),
                    resp)

LpgaLeaderboardStart ==
    /\ Ready
    /\ \E raw \in LimitInputs :
         Begin("lpga-leaderboard", [raw |-> raw, limit |-> ParseLimit(raw, LpgaDefaultLimit)],
               <<EventsUrl("lpga")>>, "await_events")

LpgaLeaderboardResume ==
    /\ handler = "lpga-leaderboard"
    /\ pc = "await_events"
    /\ \E resp \in Responses(EventsBodies), now \in Times :
         LET data == fetchJSON(resp)
         IN  Finish(IF data.kind = "rejected" THEN Thrown(data.error)
                    ELSE LpgaLeaderboardHandler(data.value, input.limit, now), resp)

\* the three fetchJSON calls are made while the array literal is evaluated
FullReportStart ==
    /\ Ready
    /\ Begin("full-report", NoInput, <<EventsUrl("pga"), EventsUrl("lpga"), ScoreboardUrl>>,
             "await_all")

\* one of the three calls settles; the handler is resumed when Promise.all settles
FullReportSettle ==
    /\ handler = "full-report"
    /\ \E i \in DOMAIN fetched :
         /\ fetched[i] = Pending
         /\ \E resp \in Responses(IF requests[i].family = "events" THEN EventsBodies
                                  ELSE ScheduleBodies), now \in Times :
              LET settled == fetchJSON(resp)
                  all == [fetched EXCEPT ![i] = settled]
                  step == FullReportResume(all, settled, now)
              IN  /\ responses' = [responses EXCEPT ![i] = resp]
                  /\ fetched' = all
                  /\ IF pc = "await_all"
                     THEN result' = step.result /\ pc' = step.pc
                     ELSE UNCHANGED <<result, pc>>
    /\ UNCHANGED <<handler, input, requests, tracker, libCalls>>

\* a handler that talks to the analytics library, not to the upstream
BeginAnalytics(key, in, step) ==
    /\ handler' = key
    /\ input' = in
    /\ requests' = <<>>
    /\ responses' = <<>>
    /\ fetched' = <<>>
    /\ IF step.do = "return"
       THEN result' = Returned(step.output) /\ pc' = "done" /\ libCalls' = 0
       ELSE result' = NoResult /\ pc' = "await_library" /\ libCalls' = 1
    /\ UNCHANGED tracker

FinishAnalytics(r) ==
    /\ result' = r
    /\ pc' = "done"
    /\ UNCHANGED <<handler, input, requests, responses, fetched, tracker, libCalls>>

AnalyticsStart ==
    /\ Ready
    /\ \E w \in WindowInputs :
         BeginAnalytics("analytics", [windowMs |-> w], AnalyticsGuard(tracker))

\* await getSummary(tracker, windowMs) has settled
AnalyticsResume ==
    /\ handler = "analytics"
    /\ pc = "await_library"
    /\ \E summary \in LibraryOutcomes(Summaries) :
         FinishAnalytics(IF summary.kind = "rejected" THEN Thrown(summary.error)
                         ELSE AnalyticsOutput(summary.value))

AnalyticsTransactionsStart ==
    /\ Ready
    /\ \E w \in WindowInputs, raw \in {Undefined, Num(1)} :
         BeginAnalytics("analytics-transactions",
                        [windowMs |-> w, limit |-> ParseLimit(raw, TransactionsDefaultLimit)],
                        AnalyticsTransactionsGuard(tracker))

\* await getAllTransactions(tracker, windowMs) has settled
AnalyticsTransactionsResume ==
    /\ handler = "analytics-transactions"
    /\ pc = "await_library"
    /\ \E txs \in LibraryOutcomes(TransactionLists) :
         FinishAnalytics(IF txs.kind = "rejected" THEN Thrown(txs.error)
                         ELSE AnalyticsTransactionsOutput(txs.value, input.limit))

AnalyticsCsvStart ==
    /\ Ready
    /\ \E w \in WindowInputs :
         BeginAnalytics("analytics-csv", [windowMs |-> w], AnalyticsCsvGuard(tracker))

\* await exportToCSV(tracker, windowMs) has settled
AnalyticsCsvResume ==
    /\ handler = "analytics-csv"
    /\ pc = "await_library"
    /\ \E csv \in LibraryOutcomes(CsvTexts) :
         FinishAnalytics(IF csv.kind = "rejected" THEN Thrown(csv.error)
                         ELSE AnalyticsCsvOutput(csv.value))

Next ==
    \/ OverviewStart
    \/ OverviewResume
    \/ PgaLeaderboardStart
    \/ PgaLeaderboardAfterEvents
    \/ PgaLeaderboardAfterScoreboard
    \/ PlayerScorecardStart
    \/ PlayerScorecardAfterEvents
    \/ PlayerScorecardAfterScoreboard
    \/ LpgaLeaderboardStart
    \/ LpgaLeaderboardResume
    \/ FullReportStart
    \/ FullReportSettle
    \/ AnalyticsStart
    \/ AnalyticsResume
    \/ AnalyticsTransactionsStart
    \/ AnalyticsTransactionsResume
    \/ AnalyticsCsvStart
    \/ AnalyticsCsvResume

Spec == Init /\ [][Next]_vars

(***************************************************************************)
(* What the properties read off the state: the upstream data as it was     *)
(* received, independently of how the handlers navigate it.                *)
(***************************************************************************)
Answered(r) == "settled" \in DOMAIN r

Succeeded(i) == i \in DOMAIN fetched /\ fetched[i].kind = "fulfilled"

EventListEmpty(body) ==
    LET ev == Get(body, "events") IN Nullish(ev) \/ ev.a = <<>>

HasFirstEvent(body) ==
    LET ev == Get(body, "events") IN ev.t = "array" /\ ev.a # <<>> /\ ~Nullish(ev.a[1])

FirstEvent(body) == Get(body, "events").a[1]

\* the competitors of the first event of an /events payload, in upstream order
UpstreamEventCompetitors(body) ==
    LET cs == Get(FirstEvent(body), "competitors") IN IF cs.t = "array" THEN cs.a ELSE <<>>

\* the competitors of a /scoreboard payload, in upstream order
UpstreamScoreboardCompetitors(body) ==
    LET ev == Get(body, "events")
        comps == IF ev.t = "array" /\ ev.a # <<>> THEN Get(ev.a[1], "competitions") ELSE Undefined
        cs == IF comps.t = "array" /\ comps.a # <<>> THEN Get(comps.a[1], "competitors") ELSE Undefined
    IN  IF cs.t = "array" THEN cs.a ELSE <<>>

Output == result.output

HasLeaderboard == result.kind = "returned" /\ "leaderboard" \in DOMAIN Output

(***************************************************************************)
(* C1: for every handler that reads an upstream event list, when its       *)
(* upstream calls succeed and the event list is empty or missing, the      *)
(* handler ends by returning an output with a no-tournament indicator (a   *)
(* message field, an error field, or a null tour section), never by        *)
(* throwing.                                                               *)
(***************************************************************************)
C1_NoTournamentIsReturned ==
    /\ ( /\ handler \in {"overview", "pga-leaderboard", "player-scorecard", "lpga-leaderboard"}
         /\ Succeeded(1)
         /\ EventListEmpty(fetched[1].value) )
       => /\ pc = "done"
          /\ result.kind = "returned"
          /\ IF handler = "overview" THEN "message" \in DOMAIN Output
             ELSE "error" \in DOMAIN Output
    /\ (handler = "full-report" /\ \A i \in 1..3 : Succeeded(i))
       => /\ pc = "done"
          /\ result.kind = "returned"
          /\ EventListEmpty(fetched[1].value) => Output.pga = Null
          /\ EventListEmpty(fetched[2].value) => Output.lpga = Null

C1_Witness ==
    /\ handler = "lpga-leaderboard"
    /\ pc = "done"
    /\ Succeeded(1)
    /\ Get(fetched[1].value, "events") = Undefined
    /\ result = Returned([error |-> "No active LPGA tournament"])

(***************************************************************************)
(* C2: full-report issues its three upstream calls (pga events, lpga       *)
(* events, pga scoreboard) before awaiting any of them; it returns a       *)
(* report only when all three have succeeded, and in every interleaving of *)
(* the completions, once any of the three has failed the handler has       *)
(* thrown and there is no output.                                          *)
(***************************************************************************)
C2_AllOrNothingJoin ==
    handler = "full-report"
    => /\ requests = <<EventsUrl("pga"), EventsUrl("lpga"), ScoreboardUrl>>
       /\ result.kind = "returned" <=> (\A i \in 1..3 : Succeeded(i))
       /\ result.kind = "thrown" <=> (\E i \in 1..3 : fetched[i].kind = "rejected")
       /\ result.kind = "thrown" => "output" \notin DOMAIN result
       /\ result.kind = "none" <=> pc = "await_all"

C2_Witness ==
    /\ handler = "full-report"
    /\ Succeeded(1)
    /\ fetched[2] = Pending
    /\ fetched[3].kind = "rejected"
    /\ result = Thrown(fetched[3].error)

(***************************************************************************)
(* C3: in a full-report output, lpga is null exactly when the lpga event   *)
(* list has no first event and pga is null exactly when the pga event list *)
(* has no first event; a section that is not null has a topPlayers list of *)
(* at most 10 entries.                                                     *)
(***************************************************************************)
C3_SectionsIndependentlyNullable ==
    (handler = "full-report" /\ result.kind = "returned")
    => /\ Output.pga = Null <=> ~HasFirstEvent(fetched[1].value)
       /\ Output.lpga = Null <=> ~HasFirstEvent(fetched[2].value)
       /\ Output.pga # Null => Len(Output.pga.topPlayers) <= 10
       /\ Output.lpga # Null => Len(Output.lpga.topPlayers) <= 10

C3_Witness ==
    /\ handler = "full-report"
    /\ result.kind = "returned"
    /\ Output.lpga = Null
    /\ Output.pga # Null
    /\ Len(Output.pga.topPlayers) = 10
    /\ Len(UpstreamEventCompetitors(fetched[1].value)) > 10

(***************************************************************************)
(* C4 (as amended): pga-leaderboard, for a scoreboard with n competitors   *)
(* and an integer limit L >= 0, returns exactly min(L, n) entries, the     *)
(* first min(L, n) competitors in upstream order with nothing added; a     *)
(* negative integer L returns the first max(n + L, 0) competitors; the     *)
(* limit is 50 when the input gives none, and totalPlayers is n whatever   *)
(* the limit.                                                              *)
(***************************************************************************)
C4_LimitedLeaderboard ==
    (handler = "pga-leaderboard" /\ HasLeaderboard)
    => LET n == Len(UpstreamScoreboardCompetitors(fetched[2].value))
           L == input.limit
           lb == Output.leaderboard
       IN  /\ L = IF input.raw = Undefined THEN 50 ELSE input.raw.n
           /\ Output.totalPlayers = n
           /\ Len(lb) = IF L >= 0 THEN Min(L, n) ELSE Max(n + L, 0)
           /\ \A k \in 1..Len(lb) :
                lb[k].playerId = Get(UpstreamScoreboardCompetitors(fetched[2].value)[k], "id")

C4_Witness ==
    /\ handler = "pga-leaderboard"
    /\ HasLeaderboard
    /\ input.raw = Num(5)
    /\ Output.totalPlayers = 20
    /\ Len(Output.leaderboard) = 5

(***************************************************************************)
(* C4 as stated: pga-leaderboard returns exactly min(L, n) entries for     *)
(* every input limit L.                                                    *)
(***************************************************************************)
C4_AsStated ==
    (handler = "pga-leaderboard" /\ HasLeaderboard)
    => Len(Output.leaderboard)
         = Min(input.limit, Len(UpstreamScoreboardCompetitors(fetched[2].value)))

(***************************************************************************)
(* C5: in every leaderboard list returned (overview, pga-leaderboard,      *)
(* lpga-leaderboard, full-report topPlayers) the positions are 1..N with   *)
(* no gap or repeat and the entry at position k is built from the k-th     *)
(* upstream competitor; overview returns at most 10 entries.               *)
(***************************************************************************)
InUpstreamOrder(list, upstream) ==
    /\ Len(list) <= Len(upstream)
    /\ \A k \in 1..Len(list) :
         /\ list[k].position = k
         /\ list[k].name = Get(upstream[k], "displayName")
         /\ list[k].score = Get(upstream[k], "score")

C5_PositionsFollowUpstreamOrder ==
    /\ (handler = "overview" /\ HasLeaderboard)
       => /\ InUpstreamOrder(Output.leaderboard, UpstreamEventCompetitors(fetched[1].value))
          /\ Len(Output.leaderboard) <= 10
    /\ (handler = "lpga-leaderboard" /\ HasLeaderboard)
       => InUpstreamOrder(Output.leaderboard, UpstreamEventCompetitors(fetched[1].value))
    /\ (handler = "pga-leaderboard" /\ HasLeaderboard)
       => LET up == UpstreamScoreboardCompetitors(fetched[2].value)
          IN  /\ Len(Output.leaderboard) <= Len(up)
              /\ \A k \in 1..Len(Output.leaderboard) :
                   /\ Output.leaderboard[k].position = k
                   /\ Output.leaderboard[k].playerId = Get(up[k], "id")
                   /\ Output.leaderboard[k].score = Get(up[k], "score")
    /\ (handler = "full-report" /\ result.kind = "returned")
       => /\ Output.pga # Null
             => InUpstreamOrder(Output.pga.topPlayers, UpstreamEventCompetitors(fetched[1].value))
          /\ Output.lpga # Null
             => InUpstreamOrder(Output.lpga.topPlayers, UpstreamEventCompetitors(fetched[2].value))

C5_Witness ==
    /\ handler = "overview"
    /\ HasLeaderboard
    /\ Len(UpstreamEventCompetitors(fetched[1].value)) > 10
    /\ Len(Output.leaderboard) = 10
    /\ Output.leaderboard[10].position = 10

(***************************************************************************)
(* C6: player-scorecard, when both upstream calls succeed and a current    *)
(* event exists, returns and does not throw; if some competitor's id       *)
(* equals playerId, the output has a rounds list as long as that (first    *)
(* such) competitor's upstream line-score rounds, numbered 1..R in order;  *)
(* if none does, the output has an error field and an availablePlayers     *)
(* list of the first min(10, n) competitors' id/name pairs.                *)
(***************************************************************************)
UpstreamRounds(c) ==
    LET ls == Get(c, "linescores") IN IF ls.t = "array" THEN ls.a ELSE <<>>

C6_ScorecardOrHints ==
    (handler = "player-scorecard" /\ Succeeded(1) /\ Succeeded(2))
    => LET up == UpstreamScoreboardCompetitors(fetched[2].value)
           hits == {i \in 1..Len(up) : Get(up[i], "id") = input.playerId}
       IN  /\ result.kind = "returned"
           /\ hits # {}
              => LET first == CHOOSE i \in hits : \A j \in hits : i <= j
                     rounds == UpstreamRounds(up[first])
                 IN  /\ "error" \notin DOMAIN Output
                     /\ Len(Output.rounds) = Len(rounds)
                     /\ \A r \in 1..Len(rounds) :
                          /\ Output.rounds[r].round = r
                          /\ Output.rounds[r].score = Get(rounds[r], "displayValue")
           /\ hits = {}
              => /\ "error" \in DOMAIN Output
                 /\ Len(Output.availablePlayers) = Min(10, Len(up))
                 /\ \A k \in 1..Len(Output.availablePlayers) :
                      Output.availablePlayers[k].id = Get(up[k], "id")

C6_Witness ==
    /\ handler = "player-scorecard"
    /\ result.kind = "returned"
    /\ "rounds" \in DOMAIN Output
    /\ Len(Output.rounds) = 4
    /\ Output.player.id = input.playerId

(***************************************************************************)
(* C7: country extraction yields a country token or 'N/A' for every input: *)
(* in overview the text before the dot of a dotted shortName ("USA.Smith"  *)
(* gives "USA"), and 'N/A' for an absent or malformed shortName; in        *)
(* lpga-leaderboard the code of a logo URL containing                      *)
(* /countries/500/<code>.png, and 'N/A' for every other logo URL and for   *)
(* an absent logo.                                                         *)
(***************************************************************************)
ExpectedShortNameCountry(sn) ==
    IF sn.t = "string" /\ IndexOf(sn.s, <<".">>) > 1
    THEN Str(SubSeq(sn.s, 1, IndexOf(sn.s, <<".">>) - 1))
    ELSE NA

ExpectedLogoCountry(logo) ==
    LET dir == <<"/", "c", "o", "u", "n", "t", "r", "i", "e", "s", "/", "5", "0", "0", "/">>
        at == IF logo.t = "string" THEN IndexOf(logo.s, dir) ELSE 0
        rest == IF at = 0 THEN <<>> ELSE SubSeq(logo.s, at + Len(dir), Len(logo.s))
        dot == IndexOf(rest, <<".", "p", "n", "g">>)
    IN  IF dot > 1 THEN Str(ToUpperCase(SubSeq(rest, 1, dot - 1))) ELSE NA

C7_CountryOrSentinel ==
    /\ (handler = "overview" /\ HasLeaderboard)
       => \A k \in 1..Len(Output.leaderboard) :
            Output.leaderboard[k].country
              = ExpectedShortNameCountry(
                  Get(UpstreamEventCompetitors(fetched[1].value)[k], "shortName"))
    /\ (handler = "lpga-leaderboard" /\ HasLeaderboard)
       => \A k \in 1..Len(Output.leaderboard) :
            Output.leaderboard[k].country
              = ExpectedLogoCountry(Get(UpstreamEventCompetitors(fetched[1].value)[k], "logo"))

(***************************************************************************)
(* C8: when the payment tracker is absent, none of the three analytics     *)
(* handlers throws or calls the analytics library: analytics returns an    *)
(* output without summary totals, analytics-transactions an empty          *)
(* transactions list, analytics-csv an empty csv string.                   *)
(***************************************************************************)
C8_NoTrackerDegrades ==
    (~tracker /\ handler \in {"analytics", "analytics-transactions", "analytics-csv"})
    => /\ pc = "done"
       /\ result.kind = "returned"
       /\ libCalls = 0
       /\ handler = "analytics"
          => /\ DOMAIN Output \cap {"outgoingTotal", "incomingTotal", "netTotal"} = {}
             /\ Output.payments = <<>>
       /\ handler = "analytics-transactions" => Output = [transactions |-> <<>>]
       /\ handler = "analytics-csv" => Output = [csv |-> <<>>]

C8_Witness ==
    /\ ~tracker
    /\ handler = "analytics-csv"
    /\ pc = "done"
    /\ result = Returned([csv |-> <<>>])

(***************************************************************************)
(* C9: in one invocation of pga-leaderboard or player-scorecard the        *)
(* event-list request is issued exactly once and first; the scoreboard     *)
(* request is issued at most once, only after the event-list response      *)
(* arrived with a first event, and it carries that event's id; it is never *)
(* issued when the event list is empty or the event-list response is       *)
(* non-2xx, and in the non-2xx case the handler ends with an error         *)
(* carrying the HTTP status.                                               *)
(***************************************************************************)
C9_FixedRequestOrder ==
    handler \in {"pga-leaderboard", "player-scorecard"}
    => /\ Len(requests) \in {1, 2}
       /\ requests[1] = [tour |-> "pga", family |-> "events"]
       /\ Len(requests) = 2
          => /\ Answered(responses[1])
             /\ responses[1].settled = "fulfilled"
             /\ responses[1].ok
             /\ responses[1].body.t = "object"
             /\ HasFirstEvent(responses[1].body)
             /\ requests[2].tour = "pga"
             /\ requests[2].family = "scoreboard"
             /\ Get(FirstEvent(responses[1].body), "id").t = "string"
                => requests[2].event = Get(FirstEvent(responses[1].body), "id").s
       /\ ( /\ Answered(responses[1])
            /\ responses[1].settled = "fulfilled"
            /\ responses[1].ok
            /\ responses[1].body.t = "object"
            /\ EventListEmpty(responses[1].body) )
          => Len(requests) = 1 /\ pc = "done"
       /\ (Answered(responses[1]) /\ responses[1].settled = "fulfilled" /\ ~responses[1].ok)
          => /\ Len(requests) = 1
             /\ pc = "done"
             /\ result.kind = "thrown"
             /\ result.error.message
                  = <<"A", "P", "I", " ", "e", "r", "r", "o", "r", ":", " ">>
                    \o Digits(responses[1].status)

C9_Witness ==
    /\ handler = "player-scorecard"
    /\ pc = "await_scoreboard"
    /\ requests = << [tour |-> "pga", family |-> "events"],
                     [tour |-> "pga", family |-> "scoreboard", event |-> <<"4", "0", "1">>] >>

(***************************************************************************)
(* C10: in every pga-leaderboard entry, thru equals the upstream           *)
(* competitor's status.thru whenever that value is present (a count of 0   *)
(* holes included), and is 'F' only when the upstream value is absent.     *)
(***************************************************************************)
UpstreamThru(c) ==
    LET st == Get(c, "status") IN IF st.t = "object" THEN Get(st, "thru") ELSE Undefined

C10_ThruPassesThrough ==
    (handler = "pga-leaderboard" /\ HasLeaderboard)
    => \A k \in 1..Len(Output.leaderboard) :
         LET thru == UpstreamThru(UpstreamScoreboardCompetitors(fetched[2].value)[k])
         IN  Output.leaderboard[k].thru = IF Nullish(thru) THEN Finished ELSE thru

====
